---- MODULE Spec2Model ----
(***************************************************************************)
(* Model of the Toggl synchronization layer of obsidian-toggl-integration: *)
(* the facade TogglAPI (lib/toggl/ApiManager.ts), the wire client          *)
(* TogglApiClient (lib/toggl/TogglClient.ts) and the request queue         *)
(* ApiQueue (lib/toggl/ApiQueue.ts).                                       *)
(*                                                                         *)
(* Every facade operation is an async function with one suspension point,  *)
(* the transport call requestUrl.  An operation is therefore two steps:    *)
(* the call (up to the await) and TransportReply (everything after it: the *)
(* wire client's handling, the facade's handling, the delivery of the      *)
(* result to the caller).                                                  *)
(***************************************************************************)
EXTENDS Integers, Sequences, FiniteSets, TLC

VARIABLES
    api,        \* TogglAPI._api: "unset" until setToken creates a client
    settings,   \* TogglAPI._settings.workspace.id, parsed
    calls,      \* the facade calls made so far, in call order
    pending,    \* ApiQueue: ids of the queued operations not yet started
    working,    \* ApiQueue: an operation of the queue is in flight
    delivered,  \* what the last step delivered to a caller, or NoDelivery
    connected,  \* outcome of the last setToken that completed
    arg,        \* input of the transformation applied
    ret,        \* its result
    pc          \* "idle", or "start" / "done" of a transformation

vars == <<api, settings, calls, pending, working, delivered, connected,
          arg, ret, pc>>

facadeVars == <<api, settings, calls, pending, working, delivered, connected>>

(***************************************************************************)
(* Bounds of the model.                                                    *)
(***************************************************************************)
MaxCalls == 3
MaxDirect == 1
MaxLen == 2
MaxEntries == 3
MaxSpan == 33
MaxProjects == 3
MaxClock == 4

Workspaces == {1, 2}

(***************************************************************************)
(* JSON values as the transport hands them over.                           *)
(***************************************************************************)
Undefined == [t |-> "undefined"]
Null == [t |-> "null"]
Unparseable == [t |-> "unparseable"]
Num(n) == [t |-> "num", n |-> n]
Str(s) == [t |-> "str", s |-> s]
Bool(b) == [t |-> "bool", b |-> b]
Arr(a) == [t |-> "arr", a |-> a]
Obj(f) == [t |-> "obj", f |-> f]

IsArray(v) == v.t = "arr"

Truthy(v) ==
    CASE v.t = "num" -> v.n # 0
      [] v.t = "str" -> v.s # ""
      [] v.t = "bool" -> v.b
      [] v.t \in {"arr", "obj"} -> TRUE
      [] OTHER -> FALSE

\* v.name in JavaScript, for a v that is neither null nor undefined
Get(v, name) ==
    IF v.t = "obj" /\ name \in DOMAIN v.f THEN v.f[name] ELSE Undefined

ErrBody == Obj([message |-> Str("error")])


(***************************************************************************)
(* The transport (obsidian's requestUrl): it rejects, or it resolves with  *)
(* a status and a body.  A body that is not JSON makes the response's json *)
(* getter throw.                                                           *)
(***************************************************************************)
Throw == [kind |-> "throw", status |-> 0, body |-> Undefined]
Response(status, body) == [kind |-> "response", status |-> status, body |-> body]

Ops == {"setToken", "getWorkspaces", "getClients", "getProjects", "getTags",
        "getRecentTimeEntries", "getDailySummary", "getSummary",
        "getSummaryTimeChart", "getDetailedReport", "startTimer", "stopTimer",
        "getCurrentTimer"}

\* the body a healthy remote service answers an operation with
GoodBody(op) ==
    CASE op \in {"setToken", "getWorkspaces", "getClients", "getProjects",
                 "getTags", "getRecentTimeEntries"} -> Arr(<<Num(1)>>)
      [] op \in {"getDailySummary", "getSummary", "getSummaryTimeChart"} ->
             Obj([groups |-> Arr(<<Num(1)>>)])
      [] op = "getDetailedReport" -> Obj([data |-> Arr(<<Num(1)>>)])
      [] OTHER -> Obj([id |-> Num(1)])

\* what the transport may answer an operation with: an answer of status 500
\* carries an error body, never the data asked for
Replies(op) ==
    {Throw, Response(200, GoodBody(op)), Response(200, Null),
     Response(500, ErrBody), Response(500, Unparseable)}

(***************************************************************************)
(* Wire client, TogglClient.ts.  A wire result says whether the promise    *)
(* resolved, with which JSON, and how often the client wrote to the log.   *)
(***************************************************************************)
WireOk(json) == [ok |-> TRUE, err |-> "none", json |-> json, wlog |-> 0]
WireFail(err) == [ok |-> FALSE, err |-> err, json |-> Undefined, wlog |-> 1]

\* request with the status test outside its try block: nothing is logged
requestStatusUnlogged(reply) ==
    IF reply.kind = "throw" THEN WireFail("transport")
    ELSE IF reply.status >= 400 THEN [WireFail("http") EXCEPT !.wlog = 0]
    ELSE IF reply.body = Unparseable THEN WireFail("syntax")
    ELSE WireOk(reply.body)

request(reply) ==
    IF reply.kind = "throw" THEN WireFail("transport")
    ELSE IF reply.status >= 400 THEN WireFail("http")
    ELSE IF reply.body = Unparseable THEN WireFail("syntax")
    ELSE WireOk(reply.body)

\* clientGetDetailedReport with a catch block that does not throw again
clientGetDetailedReportSwallowed(reply) ==
    IF reply.kind = "throw" THEN [WireOk(Undefined) EXCEPT !.wlog = 1]
    ELSE IF reply.body = Unparseable THEN [WireOk(Undefined) EXCEPT !.wlog = 1]
    ELSE WireOk(reply.body)

\* the reports operations call the transport themselves: no status test
clientGetDetailedReport(reply) ==
    IF reply.kind = "throw" THEN WireFail("transport")
    ELSE IF reply.body = Unparseable THEN WireFail("syntax")
    ELSE WireOk(reply.body)

clientGetSummaryReport(reply) ==
    IF reply.kind = "throw" THEN WireFail("transport")
    ELSE IF reply.body = Unparseable THEN WireFail("syntax")
    ELSE WireOk(reply.body)

(***************************************************************************)
(* Facade, ApiManager.ts: what each operation does with the wire result.   *)
(* An outcome says whether the facade's promise rejected, with what, and   *)
(* counts the log lines of the wire client (wlog), of the facade (flog)    *)
(* and the notices shown to the user.                                      *)
(***************************************************************************)
Returned(val, wlog, flog, notice) ==
    [raised |-> FALSE, err |-> "none", ret |-> val,
     wlog |-> wlog, flog |-> flog, notice |-> notice]
Raised(err, wlog, flog, notice) ==
    [raised |-> TRUE, err |-> err, ret |-> "none",
     wlog |-> wlog, flog |-> flog, notice |-> notice]

\* console.error, new Notice, throw error
handleError(w) == Raised(w.err, w.wlog, 1, 1)


(***************************************************************************)
(* getDetailedReport's normalisation of the three response envelopes.      *)
(***************************************************************************)
\* NormalizeReport without the branch of the results envelope
NormalizeReportDataOnly(response) ==
    IF IsArray(response) THEN response.a
    ELSE IF Truthy(response) /\ IsArray(Get(response, "data"))
        THEN Get(response, "data").a
    ELSE <<>>

NormalizeReport(response) ==
    IF IsArray(response) THEN response.a
    ELSE IF Truthy(response) /\ IsArray(Get(response, "data"))
        THEN Get(response, "data").a
    ELSE IF Truthy(response) /\ Truthy(Get(response, "results"))
            /\ IsArray(Get(response, "results"))
        THEN Get(response, "results").a
    ELSE <<>>

(***************************************************************************)
(* getSummaryTimeChart.  Dates are day numbers: for two ISO dates,         *)
(* moment(end).diff(moment(start), "days") is the number of days between   *)
(* them, negative when end is before start.                                *)
(***************************************************************************)
getResolutionFromDateRange(startDate, endDate) ==
    LET diffDays == endDate - startDate
    IN  IF diffDays <= 1 THEN "hour"
        ELSE IF diffDays <= 7 THEN "day"
        ELSE IF diffDays <= 31 THEN "day"
        ELSE "month"

\* { graph: .. || [], resolution: .., total_seconds: .. || 0, ...response }:
\* a key the response has replaces the key written before the spread (the
\* keys of the response other than these three are carried over unchanged
\* and are left out)
Spread(response, key, before) ==
    IF response.t = "obj" /\ key \in DOMAIN response.f
    THEN response.f[key] ELSE before

SummaryTimeChart(options, response) ==
    [graph |-> Spread(response, "graph",
                      IF Truthy(Get(response, "graph"))
                      THEN Get(response, "graph") ELSE Arr(<<>>)),
     resolution |-> Spread(response, "resolution",
                      Str(getResolutionFromDateRange(options.start_date,
                                                     options.end_date))),
     total_seconds |-> Spread(response, "total_seconds",
                      IF Truthy(Get(response, "total_seconds"))
                      THEN Get(response, "total_seconds") ELSE Num(0))]


(***************************************************************************)
(* getRecentTimeEntries: the fold of the raw entries into groups.  A raw   *)
(* entry is [id, user_id, project_id, description, duration]; the fields   *)
(* at, start and stop are copied through and are left out.                 *)
(***************************************************************************)
\* `${v}` of a template string
Interpolate(v) ==
    CASE v.t = "num" -> ToString(v.n)
      [] v.t = "str" -> v.s
      [] v.t = "null" -> "null"
      [] OTHER -> "undefined"

GroupKey(entry) ==
    Interpolate(entry.user_id) \o "_"
    \o (IF Truthy(entry.project_id) THEN Interpolate(entry.project_id)
        ELSE "no_project") \o "_"
    \o (IF Truthy(entry.description) THEN Interpolate(entry.description)
        ELSE "no_desc")

Occurrence(entry) ==
    [id |-> entry.id,
     seconds |-> IF entry.duration > 0 THEN entry.duration ELSE 0]

\* GroupedEntries with groupedEntries[key] = [occurrence] in place of the push
RECURSIVE GroupedEntriesOverwritten(_, _)
GroupedEntriesOverwritten(response, n) ==
    IF n = 0 THEN <<>>
    ELSE LET g == GroupedEntriesOverwritten(response, n - 1)
             e == response[n]
             k == GroupKey(e)
         IN  IF \E j \in 1..Len(g) : g[j].key = k
             THEN [j \in 1..Len(g) |->
                     IF g[j].key = k
                     THEN [g[j] EXCEPT !.entries = <<Occurrence(e)>>]
                     ELSE g[j]]
             ELSE Append(g, [key |-> k, entries |-> <<Occurrence(e)>>])

\* groupedEntries after response.forEach over the first n entries, as the
\* sequence of its keys in insertion order (the order of Object.keys)
RECURSIVE GroupedEntries(_, _)
GroupedEntries(response, n) ==
    IF n = 0 THEN <<>>
    ELSE LET g == GroupedEntries(response, n - 1)
             e == response[n]
             k == GroupKey(e)
         IN  IF \E j \in 1..Len(g) : g[j].key = k
             THEN [j \in 1..Len(g) |->
                     IF g[j].key = k
                     THEN [g[j] EXCEPT !.entries = Append(@, Occurrence(e))]
                     ELSE g[j]]
             ELSE Append(g, [key |-> k, entries |-> <<Occurrence(e)>>])

HasOccurrence(g, e) == \E j \in 1..Len(g.entries) : g.entries[j].id = e.id

\* response.find(e => entries.some(entry => entry.id === e.id))
FirstEntry(response, g) ==
    response[CHOOSE i \in 1..Len(response) :
                /\ HasOccurrence(g, response[i])
                /\ \A j \in 1..(i - 1) : ~HasOccurrence(g, response[j])]

OrElse(v, default) == IF Truthy(v) THEN v ELSE default

GroupRecentTimeEntries(response) ==
    LET NonEmpty(g) == Len(g.entries) > 0
        kept == SelectSeq(GroupedEntries(response, Len(response)), NonEmpty)
    IN  [index \in 1..Len(kept) |->
            LET firstEntry == FirstEntry(response, kept[index])
            IN  [description |-> OrElse(firstEntry.description, Str("")),
                 project_id |-> OrElse(firstEntry.project_id, Null),
                 row_number |-> index,
                 time_entries |-> kept[index].entries,
                 user_id |-> OrElse(firstEntry.user_id, Num(0))]]

(***************************************************************************)
(* getProjects: the filter and the map over the projects of the wire       *)
(* client.  A project is the record of the fields the facade reads (cid,   *)
(* rate_last_updated and server_deleted_at are back-filled as wid and      *)
(* actual_hours are).                                                      *)
(***************************************************************************)
\* getProjects without its filter
ActiveProjectsUnfiltered(projects) == projects

\* projects.filter((p) => p.active)
ActiveProjects(projects) ==
    LET active(p) == Truthy(p.active)
    IN  SelectSeq(projects, active)

\* ({...project, actual_hours: .. || 0, wid: project.wid || project.workspace_id})
ProjectsResponseItem(project) ==
    [id |-> project.id,
     active |-> project.active,
     actual_hours |-> OrElse(project.actual_hours, Num(0)),
     wid |-> OrElse(project.wid, project.workspace_id),
     workspace_id |-> project.workspace_id]

ListProjects(projects) ==
    LET kept == ActiveProjects(projects)
    IN  [index \in 1..Len(kept) |-> ProjectsResponseItem(kept[index])]

(***************************************************************************)
(* startTimer and stopTimer.  Times are seconds since the epoch; an entry  *)
(* of the caller is the record of the fields of TimeEntryStart.            *)
(***************************************************************************)
\* the entry of startTimer with duration: moment().unix()
StartTimerEntryUnsigned(entry, now, workspaceId) ==
    Obj([billable |-> OrElse(entry.billable, Bool(FALSE)),
         created_with |-> Str("Toggl Track for Obsidian"),
         description |-> entry.description,
         duration |-> Num(now),
         project_id |-> entry.project_id,
         start |-> Num(now),
         stop |-> Null,
         tags |-> OrElse(entry.tags, Arr(<<>>)),
         workspace_id |-> Num(workspaceId)])

\* const timeEntry = {..} of startTimer, built at the time now
StartTimerEntry(entry, now, workspaceId) ==
    Obj([billable |-> OrElse(entry.billable, Bool(FALSE)),
         created_with |-> Str("Toggl Track for Obsidian"),
         description |-> entry.description,
         duration |-> Num(-now),
         project_id |-> entry.project_id,
         start |-> Num(now),
         stop |-> Null,
         tags |-> OrElse(entry.tags, Arr(<<>>)),
         workspace_id |-> Num(workspaceId)])

\* the body createTimeEntry posts
CreateTimeEntryBody(timeEntry) == Obj([time_entry |-> timeEntry])

\* return {...entry, at: result.at, ..} of startTimer
startTimerResult(entry, result) ==
    [billable |-> entry.billable,
     description |-> entry.description,
     at |-> Get(result, "at"),
     duration |-> Get(result, "duration"),
     id |-> Get(result, "id"),
     project_id |-> Get(result, "project_id"),
     start |-> Get(result, "start"),
     stop |-> Get(result, "stop"),
     tags |-> OrElse(Get(result, "tags"), Arr(<<>>)),
     user_id |-> Get(result, "user_id"),
     workspace_id |-> Get(result, "workspace_id")]

\* return {...entry, at: result.at, ..} of stopTimer
stopTimerResult(entry, result) ==
    [billable |-> entry.billable,
     description |-> entry.description,
     at |-> Get(result, "at"),
     duration |-> Get(result, "duration"),
     id |-> Get(result, "id"),
     project_id |-> Get(result, "project_id"),
     start |-> Get(result, "start"),
     stop |-> Get(result, "stop"),
     tags |-> OrElse(Get(result, "tags"), Arr(<<>>)),
     user_id |-> Get(result, "user_id"),
     workspace_id |-> Get(result, "workspace_id")]

(***************************************************************************)
(* The remote service's side of a timer, by its convention: an entry with  *)
(* no stop time has a negative duration; stopping an entry sets its stop   *)
(* time and the seconds it ran.                                            *)
(***************************************************************************)
RemoteCreate(body, now) ==
    LET e == Get(body, "time_entry")
    IN  Obj([at |-> Num(now),
             billable |-> Get(e, "billable"),
             description |-> Get(e, "description"),
             duration |-> Get(e, "duration"),
             id |-> Num(1),
             project_id |-> Get(e, "project_id"),
             start |-> Get(e, "start"),
             stop |-> Get(e, "stop"),
             tags |-> Get(e, "tags"),
             user_id |-> Num(1),
             workspace_id |-> Get(e, "workspace_id")])

RemoteStop(stored, now) ==
    Obj([stored.f EXCEPT !.at = Num(now),
                         !.duration = Num(now - stored.f.start.n),
                         !.stop = Num(now)])


(***************************************************************************)
(* The facade's operations after the await of the wire client's promise.   *)
(***************************************************************************)
Nullish(v) == v.t \in {"null", "undefined"}

Passed(json) == IF Nullish(json) THEN "null" ELSE "value"

\* throw "Cannot connect to Toggl API."
setTokenReply(w) ==
    IF w.ok THEN Returned("undefined", w.wlog, 0, 0)
    ELSE Raised("connect", w.wlog, 0, 0)

\* response.map on what is no array is a TypeError
getWorkspacesReply(w) ==
    IF ~w.ok THEN handleError(w)
    ELSE IF IsArray(w.json) THEN Returned("value", w.wlog, 0, 0)
    ELSE Raised("type", w.wlog, 0, 0)

getClientsReply(w) ==
    IF ~w.ok THEN handleError(w)
    ELSE IF IsArray(w.json) THEN Returned("value", w.wlog, 0, 0)
    ELSE Raised("type", w.wlog, 0, 0)

getProjectsReply(w) ==
    IF ~w.ok THEN handleError(w)
    ELSE IF IsArray(w.json) THEN Returned("value", w.wlog, 0, 0)
    ELSE Raised("type", w.wlog, 0, 0)

getTagsReply(w) ==
    IF ~w.ok THEN handleError(w)
    ELSE Returned(Passed(w.json), w.wlog, 0, 0)

getRecentTimeEntriesReply(w) ==
    IF ~w.ok THEN handleError(w)
    ELSE IF IsArray(w.json) THEN Returned("value", w.wlog, 0, 0)
    ELSE Raised("type", w.wlog, 0, 0)

\* getDailySummaryReply with the catch block of getSummaryTimeChart
getDailySummaryRethrown(w) ==
    LET try == IF ~w.ok THEN handleError(w)
               ELSE IF Nullish(w.json) THEN Raised("type", w.wlog, 0, 0)
               ELSE Returned("empty", w.wlog, 0, 0)
    IN  IF try.raised THEN [try EXCEPT !.flog = @ + 1] ELSE try

\* the try block, then catch (error) { console.error(..); return []; }
getDailySummaryReply(w) ==
    LET groups == Get(w.json, "groups")
        try == IF ~w.ok THEN handleError(w)
               ELSE IF Nullish(w.json) THEN Raised("type", w.wlog, 0, 0)
               ELSE IF ~Truthy(groups) THEN Returned("empty", w.wlog, 0, 0)
               ELSE IF ~IsArray(groups) THEN Raised("type", w.wlog, 0, 0)
               ELSE Returned(IF groups.a = <<>> THEN "empty" ELSE "value",
                             w.wlog, 0, 0)
    IN  IF try.raised
        THEN Returned("empty", try.wlog, try.flog + 1, try.notice)
        ELSE try

getSummaryReply(w) ==
    IF ~w.ok THEN handleError(w)
    ELSE Returned(Passed(w.json), w.wlog, 0, 0)

\* the try block, then catch (error) { console.error(..); throw error; }
getSummaryTimeChartReply(w) ==
    LET try == IF ~w.ok THEN handleError(w)
               ELSE IF Nullish(w.json) THEN Raised("type", w.wlog, 0, 0)
               ELSE Returned("value", w.wlog, 0, 0)
    IN  IF try.raised THEN [try EXCEPT !.flog = @ + 1] ELSE try

\* no catch: the queue's promise rejects with the wire client's error
getDetailedReportReply(w) ==
    IF ~w.ok THEN Raised(w.err, w.wlog, 0, 0)
    ELSE Returned(IF NormalizeReport(w.json) = <<>> THEN "empty" ELSE "value",
                  w.wlog, 0, 0)

\* result.at of null is a TypeError
startTimerReply(w) ==
    IF ~w.ok THEN handleError(w)
    ELSE IF Nullish(w.json) THEN Raised("type", w.wlog, 0, 0)
    ELSE Returned("value", w.wlog, 0, 0)

stopTimerReply(w) ==
    IF ~w.ok THEN handleError(w)
    ELSE IF Nullish(w.json) THEN Raised("type", w.wlog, 0, 0)
    ELSE Returned("value", w.wlog, 0, 0)

\* no catch; if (!result) return null
getCurrentTimerReply(w) ==
    IF ~w.ok THEN Raised(w.err, w.wlog, 0, 0)
    ELSE IF ~Truthy(w.json) THEN Returned("null", w.wlog, 0, 0)
    ELSE Returned("value", w.wlog, 0, 0)

\* the wire client operation each facade operation awaits
ClientCall(op, reply) ==
    CASE op = "getDetailedReport" -> clientGetDetailedReport(reply)
      [] op \in {"getDailySummary", "getSummary", "getSummaryTimeChart"} ->
             clientGetSummaryReport(reply)
      [] OTHER -> request(reply)

FacadeReply(op, w) ==
    CASE op = "setToken" -> setTokenReply(w)
      [] op = "getWorkspaces" -> getWorkspacesReply(w)
      [] op = "getClients" -> getClientsReply(w)
      [] op = "getProjects" -> getProjectsReply(w)
      [] op = "getTags" -> getTagsReply(w)
      [] op = "getRecentTimeEntries" -> getRecentTimeEntriesReply(w)
      [] op = "getDailySummary" -> getDailySummaryReply(w)
      [] op = "getSummary" -> getSummaryReply(w)
      [] op = "getSummaryTimeChart" -> getSummaryTimeChartReply(w)
      [] op = "getDetailedReport" -> getDetailedReportReply(w)
      [] op = "startTimer" -> startTimerReply(w)
      [] op = "stopTimer" -> stopTimerReply(w)
      [] op = "getCurrentTimer" -> getCurrentTimerReply(w)

(***************************************************************************)
(* Request queue, ApiQueue.ts: operations start one at a time, in the      *)
(* order of their submission; the next one starts when the one in flight   *)
(* has resolved or rejected.                                               *)
(***************************************************************************)
dequeue(q, busy) ==
    IF ~busy /\ q # <<>>
    THEN [pending |-> Tail(q), working |-> TRUE, started |-> Head(q)]
    ELSE [pending |-> q, working |-> busy, started |-> 0]

(***************************************************************************)
(* State machine of the facade.                                            *)
(***************************************************************************)
NoDelivery == [id |-> 0]
Done == [op |-> "done", ws |-> 0, st |-> "done", via |-> "none"]
InFlight(op, ws, via) == [op |-> op, ws |-> ws, st |-> "inflight", via |-> via]

Init ==
    /\ api = "unset"
    /\ settings \in Workspaces
    /\ calls = <<>>
    /\ pending = <<>>
    /\ working = FALSE
    /\ delivered = NoDelivery
    /\ connected = "unknown"
    /\ arg = Null
    /\ ret = Null
    /\ pc = "idle"

\* settingsStore.subscribe((val) => (this._settings = val))
setWorkspace ==
    /\ pc = "idle"
    /\ \E w \in Workspaces \ {settings} : settings' = w
    /\ delivered' = NoDelivery
    /\ UNCHANGED <<api, calls, pending, working, connected,
                   arg, ret, pc>>

\* the calls that await the wire client directly and are in flight
DirectInFlight ==
    {i \in 1..Len(calls) : calls[i].st = "inflight" /\ calls[i].via = "direct"}

\* an operation that awaits the wire client directly
Direct(op, ws) ==
    /\ pc = "idle"
    /\ Len(calls) < MaxCalls
    /\ Cardinality(DirectInFlight) < MaxDirect
    /\ api = "client"
    /\ calls' = Append(calls, InFlight(op, ws, "direct"))
    /\ delivered' = NoDelivery
    /\ UNCHANGED <<api, settings, pending, working, connected,
                   arg, ret, pc>>

setToken ==
    /\ pc = "idle"
    /\ Len(calls) < MaxCalls
    /\ Cardinality(DirectInFlight) < MaxDirect
    /\ api' = "client"
    /\ calls' = Append(calls, InFlight("setToken", 0, "direct"))
    /\ delivered' = NoDelivery
    /\ UNCHANGED <<settings, pending, working, connected,
                   arg, ret, pc>>

getWorkspaces == Direct("getWorkspaces", 0)
getClients == Direct("getClients", settings)
getProjects == Direct("getProjects", settings)
getTags == Direct("getTags", settings)
getRecentTimeEntries == Direct("getRecentTimeEntries", 0)
getDailySummary == Direct("getDailySummary", settings)
getSummary == Direct("getSummary", settings)
getSummaryTimeChart == Direct("getSummaryTimeChart", settings)
startTimer == Direct("startTimer", settings)

\* stopTimer with the workspace of the entry it is given
stopTimerEntryWorkspace ==
    \E entry \in [workspace_id : Workspaces] :
        Direct("stopTimer", entry.workspace_id)

\* stopTimer(entry): workspaceId is read from the settings
stopTimer ==
    \E entry \in [workspace_id : Workspaces] :
        Direct("stopTimer", settings)

getCurrentTimer == Direct("getCurrentTimer", 0)

\* getDetailedReport awaiting the wire client without the queue
getDetailedReportUnqueued ==
    /\ pc = "idle"
    /\ Len(calls) < MaxCalls
    /\ api = "client"
    /\ calls' = Append(calls, InFlight("getDetailedReport", settings, "direct"))
    /\ delivered' = NoDelivery
    /\ UNCHANGED <<api, settings, pending, working, connected,
                   arg, ret, pc>>

\* workspaceId is read before the operation is handed to the queue
getDetailedReport ==
    /\ pc = "idle"
    /\ Len(calls) < MaxCalls
    /\ api = "client"
    /\ LET id == Len(calls) + 1
           q == dequeue(Append(pending, id), working)
       IN  /\ calls' = Append(calls,
                  IF q.started = id
                  THEN InFlight("getDetailedReport", settings, "queue")
                  ELSE [InFlight("getDetailedReport", settings, "queue")
                            EXCEPT !.st = "queued"])
           /\ pending' = q.pending
           /\ working' = q.working
    /\ delivered' = NoDelivery
    /\ UNCHANGED <<api, settings, connected, arg, ret, pc>>

\* the transport answers call id: the wire client and the facade run to the
\* end of the operation, and the queue starts its next operation
TransportReply(id, reply) ==
    /\ pc = "idle"
    /\ id \in 1..Len(calls)
    /\ calls[id].st = "inflight"
    /\ reply \in Replies(calls[id].op)
    /\ LET c == calls[id]
           out == FacadeReply(c.op, ClientCall(c.op, reply))
           q == IF c.via = "queue" THEN dequeue(pending, FALSE)
                ELSE [pending |-> pending, working |-> working, started |-> 0]
       IN  /\ delivered' = [id |-> id, op |-> c.op, ws |-> c.ws,
                            reply |-> reply, out |-> out]
           /\ connected' = IF c.op # "setToken" THEN connected
                           ELSE IF out.raised THEN "failed" ELSE "ok"
           /\ pending' = q.pending
           /\ working' = q.working
           /\ calls' = [i \in 1..Len(calls) |->
                          IF i = id THEN Done
                          ELSE IF i = q.started
                          THEN [calls[i] EXCEPT !.st = "inflight"]
                          ELSE calls[i]]
    /\ UNCHANGED <<api, settings, arg, ret, pc>>

Reply == \E id \in 1..MaxCalls : \E reply \in Replies("getProjects")
             \cup Replies("getSummary") \cup Replies("getDetailedReport")
             \cup Replies("startTimer") : TransportReply(id, reply)

Next ==
    \/ setWorkspace
    \/ setToken
    \/ getWorkspaces
    \/ getClients
    \/ getProjects
    \/ getTags
    \/ getRecentTimeEntries
    \/ getDailySummary
    \/ getSummary
    \/ getSummaryTimeChart
    \/ getDetailedReport
    \/ startTimer
    \/ stopTimer
    \/ getCurrentTimer
    \/ Reply

Spec == Init /\ [][Next]_vars


\* the facade after a setToken that succeeded, with no call under way
Idle ==
    /\ api = "client"
    /\ settings = 1
    /\ calls = <<>>
    /\ pending = <<>>
    /\ working = FALSE
    /\ delivered = NoDelivery
    /\ connected = "ok"

\* The connected facade used for detailed reports, with the scheduling the
\* code relies on: the transport answers every request in the end (it owns
\* the timeouts) and the event loop runs the continuation of a settled
\* promise.
QueueInit ==
    /\ Idle
    /\ arg = Null
    /\ ret = Null
    /\ pc = "idle"

QueueNext ==
    \/ setWorkspace
    \/ setToken
    \/ getDetailedReport
    \/ Reply

QueueSpec == QueueInit /\ [][QueueNext]_vars /\ WF_vars(Reply)

(***************************************************************************)
(* The transformations of the facade, each applied to inputs drawn from a  *)
(* bounded set: the facade is idle, arg is the awaited response (with the  *)
(* options of the call where the transformation reads them).               *)
(***************************************************************************)
Items == {Num(1), Num(2)}
Lists == UNION {[1..n -> Items] : n \in 0..MaxLen}

\* an object that has the keys for which pick is not Undefined
ObjectOf(keys, pick) ==
    Obj([k \in {key \in keys : pick[key] # Undefined} |-> pick[k]])

\* what a key of a report response may hold
FieldValues == {Null, Num(0), Num(1), Str(""), Str("x")} \cup {Arr(L) : L \in Lists}

ReportResponses ==
    {Null, Num(0), Num(1), Str(""), Str("x")}
    \cup {Arr(L) : L \in Lists}
    \cup {ObjectOf({"data", "results"}, pick) :
            pick \in [{"data", "results"} -> FieldValues \cup {Undefined}]}

ReportInit ==
    /\ Idle
    /\ arg \in ReportResponses
    /\ ret = Null
    /\ pc = "start"

\* getDetailedReport from the response of the queue on
normalizeDetailedReport ==
    /\ pc = "start"
    /\ ret' = NormalizeReport(arg)
    /\ pc' = "done"
    /\ UNCHANGED <<facadeVars, arg>>

ReportSpec == ReportInit /\ [][normalizeDetailedReport]_vars

ChartKeys == {"graph", "resolution", "total_seconds"}
ChartValues ==
    [graph |-> {Undefined, Null, Arr(<<Num(1)>>)},
     resolution |-> {Undefined, Str("day"), Str("week")},
     total_seconds |-> {Undefined, Num(0), Num(60)}]

ChartResponses ==
    {ObjectOf(ChartKeys, pick) :
        pick \in {p \in [ChartKeys -> UNION {ChartValues[k] : k \in ChartKeys}] :
                    \A k \in ChartKeys : p[k] \in ChartValues[k]}}

ChartInit ==
    /\ Idle
    /\ arg \in [start_date : {0, 2}, end_date : 0..(MaxSpan + 2),
                response : ChartResponses]
    /\ ret = Null
    /\ pc = "start"

\* getSummaryTimeChart from the response of the wire client on
buildSummaryTimeChart ==
    /\ pc = "start"
    /\ ret' = SummaryTimeChart(arg, arg.response)
    /\ pc' = "done"
    /\ UNCHANGED <<facadeVars, arg>>

ChartSpec == ChartInit /\ [][buildSummaryTimeChart]_vars

RawKinds ==
    [user_id : {Num(1), Num(2)}, project_id : {Null, Num(7)},
     description : {Str(""), Str("no_desc"), Str("a")}]

\* the remote service gives every time entry an id of its own; every other
\* entry is a running one (a negative duration)
RawEntry(i, kind) ==
    [id |-> i, user_id |-> kind.user_id, project_id |-> kind.project_id,
     description |-> kind.description,
     duration |-> IF i % 2 = 1 THEN 5 ELSE -1]

RawResponses(maxLen) ==
    UNION {{[i \in 1..n |-> RawEntry(i, kinds[i])] : kinds \in [1..n -> RawKinds]} :
            n \in 0..maxLen}

RecentInit ==
    /\ Idle
    /\ arg \in RawResponses(MaxEntries)
    /\ ret = Null
    /\ pc = "start"

\* getRecentTimeEntries from the response of the wire client on
groupRecentTimeEntries ==
    /\ pc = "start"
    /\ ret' = GroupRecentTimeEntries(arg)
    /\ pc' = "done"
    /\ UNCHANGED <<facadeVars, arg>>

RecentSpec == RecentInit /\ [][groupRecentTimeEntries]_vars

ProjectKinds ==
    [active : {Bool(TRUE), Bool(FALSE), Undefined},
     actual_hours : {Undefined, Num(3)},
     wid : {Undefined, Num(1)}]

\* the remote service gives every project an id of its own
RawProject(i, kind) ==
    [id |-> i, active |-> kind.active, actual_hours |-> kind.actual_hours,
     wid |-> kind.wid, workspace_id |-> Num(1)]

RawProjects(maxLen) ==
    UNION {{[i \in 1..n |-> RawProject(i, kinds[i])] : kinds \in [1..n -> ProjectKinds]} :
            n \in 0..maxLen}

ProjectsInit ==
    /\ Idle
    /\ arg \in RawProjects(MaxProjects)
    /\ ret = Null
    /\ pc = "start"

\* getProjects from the response of the wire client on
listProjects ==
    /\ pc = "start"
    /\ ret' = ListProjects(arg)
    /\ pc' = "done"
    /\ UNCHANGED <<facadeVars, arg>>

ProjectsSpec == ProjectsInit /\ [][listProjects]_vars

\* what a caller may start a timer with, and when
TimerStarts ==
    [now : 1..MaxClock,
     entry : [billable : {Undefined, Bool(TRUE), Bool(FALSE)},
              description : {Str(""), Str("Writing")},
              project_id : {Undefined, Num(42)},
              tags : {Undefined}]]

TimerInit ==
    /\ Idle
    /\ arg \in TimerStarts
    /\ ret = Null
    /\ pc = "start"

\* startTimer(arg.entry) at the time arg.now, and the remote service's answer
startTimerScenario ==
    /\ pc = "start"
    /\ LET body == CreateTimeEntryBody(StartTimerEntry(arg.entry, arg.now, settings))
       IN  \E reply \in {Throw, Response(500, ErrBody),
                         Response(200, RemoteCreate(body, arg.now))} :
             LET w == ClientCall("startTimer", reply)
             IN  IF FacadeReply("startTimer", w).raised
                 THEN /\ ret' = [submitted |-> body, started |-> Null, stopped |-> Null]
                      /\ pc' = "raised"
                 ELSE /\ ret' = [submitted |-> body,
                                 started |-> startTimerResult(arg.entry, w.json),
                                 stopped |-> Null]
                      /\ pc' = "running"
    /\ UNCHANGED <<facadeVars, arg>>

\* stopTimer(ret.started) at a later time, and the remote service's answer
stopTimerScenario ==
    /\ pc = "running"
    /\ \E now \in arg.now..MaxClock :
         \E reply \in {Throw, Response(500, ErrBody),
                       Response(200, RemoteStop(RemoteCreate(ret.submitted, arg.now), now))} :
           LET w == ClientCall("stopTimer", reply)
           IN  IF FacadeReply("stopTimer", w).raised
               THEN /\ ret' = ret
                    /\ pc' = "raised"
               ELSE /\ ret' = [ret EXCEPT !.stopped = stopTimerResult(ret.started, w.json)]
                    /\ pc' = "stopped"
    /\ UNCHANGED <<facadeVars, arg>>

TimerNext == startTimerScenario \/ stopTimerScenario

TimerSpec == TimerInit /\ [][TimerNext]_vars


(***************************************************************************)
(* Properties.                                                             *)
(***************************************************************************)
Delivered(op) == delivered.id # 0 /\ delivered.op = op

\* the detailed-report calls that have not completed, by id (call order)
Reports == {i \in 1..Len(calls) : calls[i].op = "getDetailedReport"}

\* the transport did not produce a usable 2xx answer
ReplyFailed(reply) ==
    \/ reply.kind = "throw"
    \/ reply.status >= 400
    \/ reply.body = Unparseable

\* C1: of two detailed-report calls submitted through the queue, the later
\* one's wire request is not in flight while the earlier one has not
\* completed: requests of the queue never overlap and never overtake.
C1_QueueRunsInSubmissionOrder ==
    \A a \in Reports : \A b \in Reports : a < b => calls[b].st = "queued"

\* three reports were submitted together: the first has just completed, the
\* second is in flight and the third still waits
C1_Witness ==
    /\ Delivered("getDetailedReport")
    /\ \E b \in Reports : \E c \in Reports :
          /\ delivered.id < b
          /\ b < c
          /\ calls[b].st = "inflight"
          /\ calls[c].st = "queued"

\* a detailed-report call rejects exactly when its own wire request failed
OwnResult ==
    Delivered("getDetailedReport") =>
        (delivered.out.raised <=>
            (delivered.reply.kind = "throw" \/ delivered.reply.body = Unparseable))

\* C2: a detailed-report call fails exactly when its own request failed, and
\* every detailed-report call, also one queued behind a failing one, is
\* started and completes.
C2_FailureDoesNotPoisonQueue ==
    /\ []OwnResult
    /\ \A i \in 1..MaxCalls :
          (i \in Reports) ~> (i <= Len(calls) /\ calls[i].st = "done")

\* a report fails and the next one of the queue is started by that
C2_Witness ==
    /\ Delivered("getDetailedReport")
    /\ delivered.out.raised
    /\ \E b \in Reports : b > delivered.id /\ calls[b].st = "inflight"

\* C3: for every facade operation other than getDailySummary, a failure of
\* its wire client call is logged by the facade, shown in one notice, and
\* raised to the caller.
C3_FailureLoggedNotifiedRaised ==
    /\ delivered.id # 0
    /\ delivered.op \in Ops \ {"getDailySummary", "setToken"}
    /\ ~ClientCall(delivered.op, delivered.reply).ok
    => /\ delivered.out.raised
       /\ delivered.out.flog >= 1
       /\ delivered.out.notice = 1

\* C4: when the summary-report request fails, getDailySummary does not raise
\* and returns the empty list.
C4_DailySummaryBestEffort ==
    Delivered("getDailySummary") /\ ReplyFailed(delivered.reply)
    => ~delivered.out.raised /\ delivered.out.ret = "empty"

C4_Witness ==
    /\ Delivered("getDailySummary")
    /\ delivered.reply = Throw
    /\ delivered.out.ret = "empty"

\* call i sends its wire request in this step
IssuedInStep(i) ==
    /\ i \in 1..Len(calls')
    /\ calls'[i].st = "inflight"
    /\ i > Len(calls) \/ calls[i].st = "queued"

\* C5: a setToken whose probe fails raises the connectivity error, and
\* while the last setToken has failed no other operation sends a request.
C5_FailedProbeLeavesFacadeUnusable ==
    [][/\ (/\ delivered'.id # 0
           /\ delivered'.op = "setToken"
           /\ ReplyFailed(delivered'.reply))
          => delivered'.out.raised /\ delivered'.out.err = "connect"
       /\ connected = "failed"
          => \A i \in 1..MaxCalls : IssuedInStep(i) => calls'[i].op = "setToken"]_vars

\* C6: every wire client operation raises on a response of status >= 400
\* and resolves with the parsed body only below 400.
C6_WireClientRaisesOnHttpError ==
    delivered.id # 0 =>
        LET w == ClientCall(delivered.op, delivered.reply)
        IN  /\ (delivered.reply.kind = "response" /\ delivered.reply.status >= 400)
                  => ~w.ok
            /\ w.ok => /\ delivered.reply.status < 400
                       /\ w.json = delivered.reply.body

\* the resolution the specification gives for a span of days
ResolutionOfSpan(days) ==
    IF days <= 1 THEN "hour" ELSE IF days <= 31 THEN "day" ELSE "month"

\* C7: the resolution of the time chart is decided by the two dates alone,
\* whatever the remote response holds.
C7_ResolutionFromDatesOnly ==
    pc = "done" =>
        ret.resolution = Str(ResolutionOfSpan(arg.end_date - arg.start_date))

\* C8: a bare array, {data: L} and {results: L} all normalise to L; null, a
\* scalar and an object with neither a data array nor a results array
\* normalise to the empty list.
C8_EnvelopesNormalised ==
    pc = "done" =>
        /\ IsArray(arg) => ret = arg.a
        /\ \A L \in Lists :
              /\ arg = Obj([data |-> Arr(L)]) => ret = L
              /\ arg = Obj([results |-> Arr(L)]) => ret = L
        /\ (/\ ~IsArray(arg)
            /\ ~IsArray(Get(arg, "data"))
            /\ ~IsArray(Get(arg, "results"))) => ret = <<>>

C8_Witness ==
    /\ pc = "done"
    /\ arg = Obj([results |-> Arr(<<Num(1), Num(2)>>)])
    /\ ret = <<Num(1), Num(2)>>

RECURSIVE Occurrences(_, _)
Occurrences(groups, n) ==
    IF n = 0 THEN 0
    ELSE Occurrences(groups, n - 1) + Len(groups[n].time_entries)

\* C9: every returned group has at least one occurrence, and the groups
\* hold as many occurrences as raw entries were fetched, every raw entry
\* exactly once.
C9_GroupsPartitionEntries ==
    pc = "done" =>
        /\ \A g \in 1..Len(ret) : Len(ret[g].time_entries) >= 1
        /\ Occurrences(ret, Len(ret)) = Len(arg)
        /\ \A i \in 1..Len(arg) :
              Cardinality({<<g, j>> \in (1..Len(ret)) \X (1..Len(arg)) :
                              /\ j <= Len(ret[g].time_entries)
                              /\ ret[g].time_entries[j].id = arg[i].id}) = 1

\* three entries folded into two groups
C9_Witness ==
    /\ pc = "done"
    /\ Len(arg) = 3
    /\ Len(ret) = 2

\* C10 as stated: an HTTP failure of getProjects is raised, logged once in
\* all, and shown in one notice.
C10_LoggedOnce ==
    /\ Delivered("getProjects")
    /\ delivered.reply.kind = "response"
    /\ delivered.reply.status >= 400
    => /\ delivered.out.raised
       /\ delivered.out.wlog + delivered.out.flog = 1
       /\ delivered.out.notice = 1

\* C10: an HTTP failure of getProjects is raised, logged once by the wire
\* client and once by the facade, and shown in one notice.
C10_LoggedByClientAndFacade ==
    /\ Delivered("getProjects")
    /\ delivered.reply.kind = "response"
    /\ delivered.reply.status >= 400
    => /\ delivered.out.raised
       /\ delivered.out.wlog = 1
       /\ delivered.out.flog = 1
       /\ delivered.out.notice = 1

C10_Witness ==
    /\ Delivered("getProjects")
    /\ delivered.reply = Response(500, ErrBody)
    /\ delivered.out.raised

\* the ids of the projects of a list, in the order of the list
ProjectIds(projects) == [i \in 1..Len(projects) |-> projects[i].id]

IsActive(p) == p.active = Bool(TRUE)

\* C11: getProjects returns no project whose active flag is false: its result
\* is the projects with active == true of the remote list, in their order.
C11_OnlyActiveProjects ==
    pc = "done" =>
        /\ \A j \in 1..Len(ret) : ret[j].active # Bool(FALSE)
        /\ \A j \in 1..Len(ret) : ret[j].active = Bool(TRUE)
        /\ ProjectIds(ret) = ProjectIds(SelectSeq(arg, IsActive))

C11_Witness ==
    /\ pc = "done"
    /\ Len(arg) = 3
    /\ arg[1].active = Bool(TRUE)
    /\ arg[2].active = Bool(FALSE)
    /\ arg[3].active = Bool(TRUE)
    /\ ProjectIds(ret) = <<1, 3>>

\* C12: startTimer submits an entry with stop null and a negative duration and
\* returns a running entry (stop null, negative duration); stopTimer on that
\* entry then returns an entry with a stop time and a non-negative duration.
C12_StartThenStop ==
    /\ pc \in {"running", "stopped"} =>
          LET timeEntry == Get(ret.submitted, "time_entry")
          IN  /\ Get(timeEntry, "stop") = Null
              /\ Get(timeEntry, "duration").n < 0
              /\ ret.started.stop = Null
              /\ ret.started.duration.n < 0
    /\ pc = "stopped" =>
          /\ ret.stopped.id = ret.started.id
          /\ ret.stopped.stop # Null
          /\ ret.stopped.stop # Undefined
          /\ ret.stopped.duration.n >= 0

C12_Witness ==
    /\ pc = "stopped"
    /\ arg.entry.description = Str("Writing")
    /\ arg.entry.project_id = Num(42)
    /\ ret.started.project_id = Num(42)
    /\ ret.stopped.description = Str("Writing")
    /\ ret.stopped.duration = Num(0)

\* the operations whose request names a workspace
WorkspaceScoped ==
    {"getClients", "getProjects", "getTags", "getDailySummary", "getSummary",
     "getSummaryTimeChart", "getDetailedReport", "startTimer", "stopTimer"}

\* call i is made in this step
CalledInStep(i) == i > Len(calls) /\ i <= Len(calls')

\* C13 as stated: every workspace-scoped operation, a detailed report that
\* waited in the queue and stopTimer included, sends its request for the
\* workspace that is configured when the request is issued.
C13_WorkspaceAtIssue ==
    [][\A i \in 1..MaxCalls :
          IssuedInStep(i) /\ calls'[i].op \in WorkspaceScoped
             => calls'[i].ws = settings']_vars

\* C13: every workspace-scoped operation, stopTimer included, sends its
\* request for the workspace that is configured when the operation is called;
\* a detailed report that waits in the queue keeps that workspace until its
\* request is issued, whatever the configuration is by then.
C13_WorkspaceAtCall ==
    [][\A i \in 1..MaxCalls :
          /\ CalledInStep(i) /\ calls'[i].op \in WorkspaceScoped
                => calls'[i].ws = settings
          /\ i <= Len(calls) /\ calls[i].st = "queued"
                => calls'[i].ws = calls[i].ws]_vars

C13_Witness ==
    /\ Delivered("getDetailedReport")
    /\ \E i \in 1..Len(calls) :
          /\ i > delivered.id
          /\ calls[i].op = "getDetailedReport"
          /\ calls[i].st = "inflight"
          /\ calls[i].ws # settings

\* raw entries i and j are occurrences of one group of the result
InOneGroup(i, j) ==
    \E g \in 1..Len(ret) :
        /\ \E k \in 1..Len(ret[g].time_entries) : ret[g].time_entries[k].id = arg[i].id
        /\ \E k \in 1..Len(ret[g].time_entries) : ret[g].time_entries[k].id = arg[j].id

SameTuple(a, b) ==
    /\ a.user_id = b.user_id
    /\ a.project_id = b.project_id
    /\ a.description = b.description

\* C14: getRecentTimeEntries folds two raw entries into one group if and
\* only if they have the same user_id, project_id and description.
C14_GroupedIffSameTuple ==
    pc = "done" =>
        \A i, j \in 1..Len(arg) : InOneGroup(i, j) <=> SameTuple(arg[i], arg[j])

====
